---- MODULE Spec2Model ----
(***************************************************************************)
(* Model of the referrals pallet (pallets/referrals/src/lib.rs): the       *)
(* shares ledger, fee intake, pending conversions and claim settlement.    *)
(* Balance is u128 in the source; here it is an unsigned integer with the  *)
(* range 0..MaxBalance, and saturating/checked arithmetic is kept.         *)
(***************************************************************************)
EXTENDS Integers, Sequences, FiniteSets, TLC

\* ------------------------------------------------------------ bounds
MaxBalance == 7
MaxAmount == 2
MaxConvertOut == 1
MaxSteps == 4
InitialBalance == 3
MaxWeight == 5
MaxReferralSteps == 7
MaxReferralConvertOut == 2
MaxDrainSteps == 6
MaxCodeSteps == 6

\* ------------------------------------------------------------ program constants
PermillOne == 1000000
SeedNativeAmount == 1
MinCodeLength == 2
CodeLength == 3
RegistrationFeeAmount == 1
ExistentialDeposit == 1
ConvertWeight == 2
OneRead == 1

RewardAsset == "HDX"
Assets == {"HDX", "DAI", "DOT"}
AssetOrder == <<"DAI", "DOT", "HDX", "ETH", "BTC", "USDT">>

Pot == "pot"
Beneficiary == "treasury"
Staking == "staking"
Users == {"alice", "bob"}
Claimants == Users \cup {Staking}
Accounts == Users \cup {Staking, Pot, Beneficiary}
NoAccount == "none"
NoCode == <<>>
NoPrice == <<>>

Levels == {"None", "Tier0", "Tier1", "Tier2", "Tier3", "Tier4"}
DefaultLevel == "Tier0"
NoReferrer == [level |-> "None", total |-> -1]
NoRewards == [referrer |-> -1, trader |-> -1, external |-> -1]

Balance == 0..MaxBalance

\* ------------------------------------------------------------ results
Ok(v) == [ok |-> TRUE, val |-> v, err |-> ""]
Err(e) == [ok |-> FALSE, val |-> 0, err |-> e]

\* ------------------------------------------------------------ arithmetic
Min(a, b) == IF a < b THEN a ELSE b

SaturatingAdd(a, b) == Min(a + b, MaxBalance)

SaturatingSub(a, b) == IF a >= b THEN a - b ELSE 0

\* u128::checked_add: -1 stands for None
CheckedAdd(a, b) == IF a + b > MaxBalance THEN -1 ELSE a + b

\* Permill::mul_floor
MulFloor(p, x) == (p * x) \div PermillOne

PermillSaturatingAdd(p, q) == IF p + q > PermillOne THEN PermillOne ELSE p + q

\* Permill::checked_add: -1 stands for None
PermillCheckedAdd(p, q) == IF p + q > PermillOne THEN -1 ELSE p + q

\* multiply_by_rational_with_rounding(a, n, d, Rounding::Down): -1 stands for None
MultiplyByRational(a, n, d) ==
    IF d = 0 THEN -1
    ELSE IF (a * n) \div d > MaxBalance THEN -1
    ELSE (a * n) \div d

\* ------------------------------------------------------------ referral codes
ToAsciiUppercaseNot(c) == c

\* u8::to_ascii_uppercase over the alphabet used by CodeInputs
ToAsciiUppercase(c) ==
    CASE c = "a" -> "A"
      [] c = "b" -> "B"
      [] OTHER -> c

\* char::is_alphanumeric
IsAlphanumeric(c) == c \in {"a", "b", "A", "B"}

\* normalize_code: upper-case every byte, then BoundedVec::truncate_from
normalize_code(code) ==
    [i \in 1..(IF Len(code) < CodeLength THEN Len(code) ELSE CodeLength) |->
        ToAsciiUppercase(code[i])]

CodeInputs == {<<"a", "b">>, <<"A", "B">>, <<"a">>, <<"a", "-">>}
NormCodes == {normalize_code(c) : c \in CodeInputs}

\* ------------------------------------------------------------ configuration
FeeDist(r, t, e) == [referrer |-> r, trader |-> t, external |-> e]

\* T::LevelVolumeAndRewardPercentages: level -> (required volume, FeeDistribution)
GoodLevelConfig ==
    [l \in Levels |->
        CASE l = "None"  -> [volume |-> 0, rewards |-> FeeDist(0, 500000, 500000)]
          [] l = "Tier0" -> [volume |-> 0, rewards |-> FeeDist(500000, 500000, 0)]
          [] l = "Tier1" -> [volume |-> 1, rewards |-> FeeDist(1000000, 0, 0)]
          [] l = "Tier2" -> [volume |-> 2, rewards |-> FeeDist(500000, 0, 500000)]
          [] l = "Tier3" -> [volume |-> 4, rewards |-> FeeDist(500000, 500000, 0)]
          [] OTHER       -> [volume |-> 6, rewards |-> FeeDist(1000000, 0, 0)]]

\* the same table with the percentages of Tier0 set incorrectly (they sum to 150%)
BadLevelConfig ==
    [GoodLevelConfig EXCEPT !["Tier0"] = [volume |-> 0, rewards |-> FeeDist(500000, 500000, 500000)]]

\* the runtime configurations: <<T::ExternalAccount, T::LevelVolumeAndRewardPercentages>>
Configs == {<<Staking, BadLevelConfig>>, <<NoAccount, GoodLevelConfig>>}

\* distributions offered to set_reward_percentage
RewardInputs ==
    {FeeDist(0, 1000000, 0), FeeDist(500000, 0, 500000), FeeDist(500000, 500000, 500000),
     FeeDist(1000000, 500000, 0)}
RewardInputAssets == {"DAI"}
RewardInputLevels == {"None"}

\* prices offered by the price provider: <<n, d>>, or NoPrice
Prices == {NoPrice, <<1, 2>>, <<4, 1>>}

\* fee amounts offered to process_trade_fee, and the accounts the fee is taken from
FeeAmounts == {0, MaxAmount}
Sources == {"bob"}

\* ------------------------------------------------------------ state
VARIABLES
    balances,            \* T::Currency: asset -> account -> Balance
    referralCodes,       \* ReferralCodes: code -> account
    referralAccounts,    \* ReferralAccounts: account -> code
    linkedAccounts,      \* LinkedAccounts: account -> referrer account
    referrerShares,      \* ReferrerShares
    traderShares,        \* TraderShares
    totalShares,         \* TotalShares
    referrer,            \* Referrer: account -> (Level, Balance)
    assetRewards,        \* AssetRewards: (asset, level) -> FeeDistribution
    pendingConversions,  \* PendingConversions: set of assets
    externalAccount,     \* T::ExternalAccount
    levelConfig,         \* T::LevelVolumeAndRewardPercentages
    last,                \* the last call: its arguments, result and what it emitted
    steps                \* number of calls made so far

vars == <<balances, referralCodes, referralAccounts, linkedAccounts, referrerShares,
          traderShares, totalShares, referrer, assetRewards, pendingConversions,
          externalAccount, levelConfig, last, steps>>

config == <<externalAccount, levelConfig>>

\* the pallet's storage and the balances, as one value
Storage ==
    [bal |-> balances, codes |-> referralCodes, refAccounts |-> referralAccounts,
     linked |-> linkedAccounts, refShares |-> referrerShares, trShares |-> traderShares,
     total |-> totalShares, referrer |-> referrer, assetRewards |-> assetRewards,
     pending |-> pendingConversions]

Commit(s) ==
    /\ balances' = s.bal
    /\ referralCodes' = s.codes
    /\ referralAccounts' = s.refAccounts
    /\ linkedAccounts' = s.linked
    /\ referrerShares' = s.refShares
    /\ traderShares' = s.trShares
    /\ totalShares' = s.total
    /\ referrer' = s.referrer
    /\ assetRewards' = s.assetRewards
    /\ pendingConversions' = s.pending

\* what a call returns: its result, the storage at the point of return,
\* the events deposited, the transfers made and the conversions attempted
Ret(res, s, ev, tr) ==
    [res |-> res, st |-> s, events |-> ev, transfers |-> tr, converts |-> <<>>]

TransactionalNoRollback(r, s0) == r

\* the storage layer of a dispatchable / #[transactional]: an Err discards every write
\* (the record of the conversions attempted is an observation, and is kept)
Transactional(r, s0) ==
    IF r.res.ok THEN r ELSE [Ret(r.res, s0, <<>>, <<>>) EXCEPT !.converts = r.converts]

\* what is observed of a call: the operation, the signer (or trader), its result,
\* the events it deposited, the transfers it made and the conversions it attempted
Observed(op, who, r) ==
    [op |-> op, who |-> who, res |-> r.res, events |-> r.events, transfers |-> r.transfers,
     converts |-> r.converts]

\* ------------------------------------------------------------ collaborators
\* T::Currency::transfer(asset, from, to, amount, keep_alive)
Transfer(bal, asset, from, to, amount, keep_alive) ==
    IF amount = 0 THEN [ok |-> TRUE, bal |-> bal, err |-> ""]
    ELSE IF bal[asset][from] < amount THEN [ok |-> FALSE, bal |-> bal, err |-> "BalanceTooLow"]
    ELSE IF keep_alive /\ bal[asset][from] - amount < ExistentialDeposit
        THEN [ok |-> FALSE, bal |-> bal, err |-> "KeepAlive"]
    ELSE IF bal[asset][to] + amount > MaxBalance THEN [ok |-> FALSE, bal |-> bal, err |-> "Overflow"]
    ELSE [ok |-> TRUE, err |-> "",
          bal |-> [bal EXCEPT ![asset][from] = @ - amount, ![asset][to] = @ + amount]]

ConvertLog(asset_in, amount, r) ==
    [asset |-> asset_in, amount |-> amount, ok |-> r.ok, out |-> r.out, err |-> r.err]

TransferLog(asset, from, to, amount, keep_alive) ==
    [asset |-> asset, from |-> from, to |-> to, amount |-> amount, keep_alive |-> keep_alive]

\* outcomes a conversion can have: the amount received, or an error
ConvertErrors == {"ConversionMinTradingAmountNotReached", "ConversionZeroAmountReceived", "Other"}
ConvertOutcomes ==
    {[ok |-> TRUE, out |-> n, err |-> ""] : n \in 1..MaxConvertOut}
        \cup {[ok |-> FALSE, out |-> 0, err |-> e] : e \in ConvertErrors}

\* T::Convert::convert(pot, asset_in, RewardAsset, amount) with the given outcome:
\* the pot gives `amount` of asset_in and receives `out` of the reward asset
Convert(bal, asset_in, amount, outcome) ==
    IF asset_in = RewardAsset THEN [ok |-> FALSE, bal |-> bal, out |-> 0, err |-> "Other"]
    ELSE IF ~outcome.ok THEN [ok |-> FALSE, bal |-> bal, out |-> 0, err |-> outcome.err]
    ELSE IF amount = 0
        THEN [ok |-> FALSE, bal |-> bal, out |-> 0, err |-> "ConversionZeroAmountReceived"]
    ELSE IF bal[RewardAsset][Pot] + outcome.out > MaxBalance
        THEN [ok |-> FALSE, bal |-> bal, out |-> 0, err |-> "Other"]
    ELSE [ok |-> TRUE, out |-> outcome.out, err |-> "",
          bal |-> [bal EXCEPT ![asset_in][Pot] = @ - amount,
                              ![RewardAsset][Pot] = @ + outcome.out]]

\* ------------------------------------------------------------ Level
next_level(l) ==
    CASE l = "Tier0" -> "Tier1"
      [] l = "Tier1" -> "Tier2"
      [] l = "Tier2" -> "Tier3"
      [] l = "Tier3" -> "Tier4"
      [] l = "Tier4" -> "Tier4"
      [] OTHER -> "None"

is_max_level(l) == l = "Tier4"

LevelRank(l) ==
    CASE l = "None" -> 0
      [] l = "Tier0" -> 1
      [] l = "Tier1" -> 2
      [] l = "Tier2" -> 3
      [] l = "Tier3" -> 4
      [] OTHER -> 5

IncreaseOnce(l, amount, cfg, fuel) ==
    IF is_max_level(l) THEN l
    ELSE IF amount >= cfg[next_level(l)].volume THEN next_level(l)
    ELSE l

\* Level::increase. The recursion of the source has no bound of its own; a call
\* that is still recursing after more calls than there are levels never returns,
\* which is reported as "Diverges".
RECURSIVE IncreaseFrom(_, _, _, _)
IncreaseFrom(l, amount, cfg, fuel) ==
    IF is_max_level(l) THEN l
    ELSE IF amount >= cfg[next_level(l)].volume
        THEN IF fuel = 0 THEN "Diverges"
             ELSE IncreaseFrom(next_level(l), amount, cfg, fuel - 1)
    ELSE l

increase(l, amount, cfg) == IncreaseFrom(l, amount, cfg, Cardinality(Levels))

\* ------------------------------------------------------------ process_trade_fee
ResolveRewardsGlobalOnly(s, cfg, asset_id, level) == cfg[level].rewards

\* the distribution for (asset, level): the explicit one, else the global one
ResolveRewards(s, cfg, asset_id, level) ==
    IF s.assetRewards[asset_id][level] # NoRewards
    THEN s.assetRewards[asset_id][level]
    ELSE cfg[level].rewards

\* (level, ref_account) of the trader; found = FALSE is the defensive branch
TraderLevel(s, trader) ==
    IF s.linked[trader] # NoAccount
    THEN IF s.referrer[s.linked[trader]] # NoReferrer
         THEN [found |-> TRUE, level |-> s.referrer[s.linked[trader]].level,
               ref_account |-> s.linked[trader]]
         ELSE [found |-> FALSE, level |-> "None", ref_account |-> NoAccount]
    ELSE [found |-> TRUE, level |-> "None", ref_account |-> NoAccount]

TotalTakenNoExternal(referrer_reward, trader_reward, external_reward) ==
    SaturatingAdd(referrer_reward, trader_reward)

TotalTaken(referrer_reward, trader_reward, external_reward) ==
    SaturatingAdd(SaturatingAdd(referrer_reward, trader_reward), external_reward)

MintSharesOverwrite(s, ref_account, trader, ext, referrer_shares, trader_shares, external_shares) ==
    [s EXCEPT !.total = SaturatingAdd(SaturatingAdd(referrer_shares, trader_shares), external_shares),
              !.trShares[trader] = trader_shares]

\* the writes to TotalShares, ReferrerShares and TraderShares
MintShares(s, ref_account, trader, ext, referrer_shares, trader_shares, external_shares) ==
    LET t1 == [s EXCEPT !.total = SaturatingAdd(@,
                    SaturatingAdd(SaturatingAdd(referrer_shares, trader_shares), external_shares))]
        t2 == IF ref_account # NoAccount
              THEN [t1 EXCEPT !.refShares[ref_account] = SaturatingAdd(@, referrer_shares)]
              ELSE t1
        t3 == [t2 EXCEPT !.trShares[trader] = SaturatingAdd(@, trader_shares)]
    IN  IF ext # NoAccount
        THEN [t3 EXCEPT !.trShares[ext] = SaturatingAdd(@, external_shares)]
        ELSE t3

InsertPendingAlways(s, asset_id) == [s EXCEPT !.pending = @ \cup {asset_id}]

InsertPending(s, asset_id) ==
    IF asset_id # RewardAsset THEN [s EXCEPT !.pending = @ \cup {asset_id}] ELSE s

\* the part of process_trade_fee after the transfer
SharesAndPending(s, tl, trader, ext, asset_id, price, rr, tr, er, total_taken, log) ==
    LET referrer_shares == IF tl.ref_account # NoAccount
                           THEN MultiplyByRational(rr, price[1], price[2]) ELSE 0
        trader_shares == MultiplyByRational(tr, price[1], price[2])
        external_shares == IF ext # NoAccount
                           THEN MultiplyByRational(er, price[1], price[2]) ELSE 0
    IN  IF referrer_shares = -1 \/ trader_shares = -1 \/ external_shares = -1
        THEN Ret(Err("Overflow"), s, <<>>, log)
        ELSE Ret(Ok(total_taken),
                 InsertPending(MintShares(s, tl.ref_account, trader, ext,
                                          referrer_shares, trader_shares, external_shares),
                               asset_id),
                 <<>>, log)

\* process_trade_fee once the price is known
TakeFee(s, ext, cfg, source, trader, asset_id, amount, price) ==
    LET tl == TraderLevel(s, trader) IN
    IF ~tl.found THEN Ret(Ok(0), s, <<>>, <<>>)
    ELSE LET rewards == ResolveRewards(s, cfg, asset_id, tl.level)
             referrer_reward == IF tl.ref_account # NoAccount
                                THEN MulFloor(rewards.referrer, amount) ELSE 0
             trader_reward == MulFloor(rewards.trader, amount)
             external_reward == IF ext # NoAccount
                                THEN MulFloor(rewards.external, amount) ELSE 0
             total_taken == TotalTaken(referrer_reward, trader_reward, external_reward)
             t == Transfer(s.bal, asset_id, source, Pot, total_taken, TRUE)
         IN  IF total_taken > amount THEN Ret(Err("IncorrectRewardCalculation"), s, <<>>, <<>>)
             ELSE IF ~t.ok THEN Ret(Err(t.err), s, <<>>, <<>>)
             ELSE SharesAndPending([s EXCEPT !.bal = t.bal], tl, trader, ext, asset_id, price,
                                   referrer_reward, trader_reward, external_reward, total_taken,
                                   <<TransferLog(asset_id, source, Pot, total_taken, TRUE)>>)

process_trade_fee_body_any_price(s, ext, cfg, source, trader, asset_id, amount, price) ==
    TakeFee(s, ext, cfg, source, trader, asset_id, amount,
            IF price = NoPrice THEN <<1, 1>> ELSE price)

process_trade_fee_body(s, ext, cfg, source, trader, asset_id, amount, price) ==
    IF price = NoPrice THEN Ret(Ok(0), s, <<>>, <<>>)
    ELSE TakeFee(s, ext, cfg, source, trader, asset_id, amount, price)

process_trade_fee(s, ext, cfg, source, trader, asset_id, amount, price) ==
    Transactional(process_trade_fee_body(s, ext, cfg, source, trader, asset_id, amount, price), s)

\* ------------------------------------------------------------ claim_rewards
ToleratedConvertErrorsAll == {"ConversionMinTradingAmountNotReached", "ConversionZeroAmountReceived", "Other"}

ToleratedConvertErrors == {"ConversionMinTradingAmountNotReached", "ConversionZeroAmountReceived"}

\* the assets of `pending` in the order the storage map iterates them
RECURSIVE InOrder(_, _)
InOrder(order, pending) ==
    IF order = <<>> THEN <<>>
    ELSE IF Head(order) \in pending THEN <<Head(order)>> \o InOrder(Tail(order), pending)
    ELSE InOrder(Tail(order), pending)

ClaimConversionsNone(s, assets, outcomes, log) == [ok |-> TRUE, st |-> s, err |-> "", log |-> log]

\* the conversion loop of claim_rewards over the pending assets
RECURSIVE ClaimConversions(_, _, _, _)
ClaimConversions(s, assets, outcomes, log) ==
    IF assets = <<>> THEN [ok |-> TRUE, st |-> s, err |-> "", log |-> log]
    ELSE LET asset_id == Head(assets)
             asset_balance == s.bal[asset_id][Pot]
             r == Convert(s.bal, asset_id, asset_balance, outcomes[asset_id])
             logged == Append(log, ConvertLog(asset_id, asset_balance, r))
         IN  IF ~r.ok
             THEN IF r.err \in ToleratedConvertErrors
                  THEN ClaimConversions(s, Tail(assets), outcomes, logged)
                  ELSE [ok |-> FALSE, st |-> s, err |-> r.err, log |-> logged]
             ELSE ClaimConversions([s EXCEPT !.bal = r.bal, !.pending = @ \ {asset_id}],
                                   Tail(assets), outcomes, logged)

ConvertSharesCeil(to_convert, reward_reserve, share_issuance) ==
    IF share_issuance = 0 THEN -1
    ELSE IF (to_convert * reward_reserve + share_issuance - 1) \div share_issuance > MaxBalance THEN -1
    ELSE (to_convert * reward_reserve + share_issuance - 1) \div share_issuance

\* the closure convert_shares: -1 stands for None
ConvertShares(to_convert, reward_reserve, share_issuance) ==
    IF share_issuance = 0 THEN -1
    ELSE IF (to_convert * reward_reserve) \div share_issuance > MaxBalance THEN -1
    ELSE (to_convert * reward_reserve) \div share_issuance

NothingToClaimNever(total_shares) == FALSE

\* the early return of claim_rewards
NothingToClaim(total_shares) == total_shares = 0

KeepPotAlive(total_shares, share_issuance) == total_shares # share_issuance

UpdateReferrerLastOnly(s, who, referrer_rewards, cfg) ==
    IF s.referrer[who] = NoReferrer THEN [st |-> s, events |-> <<>>]
    ELSE [st |-> [s EXCEPT !.referrer[who] =
                    [level |-> increase(DefaultLevel, referrer_rewards, cfg),
                     total |-> referrer_rewards]],
          events |-> <<>>]

UpdateReferrerAlwaysLevelUp(s, who, referrer_rewards, cfg) ==
    IF s.referrer[who] = NoReferrer THEN [st |-> s, events |-> <<>>]
    ELSE LET total == SaturatingAdd(s.referrer[who].total, referrer_rewards)
             new_level == increase(s.referrer[who].level, total, cfg)
         IN  [st |-> [s EXCEPT !.referrer[who] = [level |-> new_level, total |-> total]],
              events |-> <<[name |-> "LevelUp", who |-> who, level |-> new_level]>>]

RewardReserveNoSeed(pot_balance) == pot_balance

\* the pot's reward balance that can be paid out
RewardReserve(pot_balance) == SaturatingSub(pot_balance, SeedNativeAmount)

\* Referrer::mutate at the end of a claim: (storage, events)
UpdateReferrer(s, who, referrer_rewards, cfg) ==
    IF s.referrer[who] = NoReferrer THEN [st |-> s, events |-> <<>>]
    ELSE LET total == SaturatingAdd(s.referrer[who].total, referrer_rewards)
             level == s.referrer[who].level
             new_level == increase(level, total, cfg)
         IN  IF level # new_level
             THEN [st |-> [s EXCEPT !.referrer[who] = [level |-> new_level, total |-> total]],
                   events |-> <<[name |-> "LevelUp", who |-> who, level |-> new_level]>>]
             ELSE [st |-> [s EXCEPT !.referrer[who] = [level |-> level, total |-> total]],
                   events |-> <<>>]

\* claim_rewards after the conversions
Settle(s, who, cfg) ==
    LET referrer_shares == s.refShares[who]
        trader_shares == s.trShares[who]
        taken == [s EXCEPT !.refShares[who] = 0, !.trShares[who] = 0]
        total_shares == SaturatingAdd(referrer_shares, trader_shares)
        reward_reserve == RewardReserve(s.bal[RewardAsset][Pot])
        share_issuance == s.total
        referrer_rewards == ConvertShares(referrer_shares, reward_reserve, share_issuance)
        trader_rewards == ConvertShares(trader_shares, reward_reserve, share_issuance)
        total_rewards == CheckedAdd(referrer_rewards, trader_rewards)
        keep_pot_alive == KeepPotAlive(total_shares, share_issuance)
        t == Transfer(s.bal, RewardAsset, Pot, who, total_rewards, keep_pot_alive)
        paid == [taken EXCEPT !.bal = t.bal, !.total = SaturatingSub(@, total_shares)]
        u == UpdateReferrer(paid, who, referrer_rewards, cfg)
    IN  IF NothingToClaim(total_shares) THEN Ret(Ok(0), taken, <<>>, <<>>)
        ELSE IF referrer_rewards = -1 \/ trader_rewards = -1 THEN Ret(Err("Overflow"), taken, <<>>, <<>>)
        ELSE IF total_rewards = -1 THEN Ret(Err("Overflow"), taken, <<>>, <<>>)
        ELSE IF total_rewards > reward_reserve
            THEN Ret(Err("IncorrectRewardCalculation"), taken, <<>>, <<>>)
        ELSE IF ~t.ok THEN Ret(Err(t.err), taken, <<>>, <<>>)
        ELSE Ret(Ok(0), u.st,
                 u.events \o <<[name |-> "Claimed", who |-> who,
                                referrer_rewards |-> referrer_rewards,
                                trade_rewards |-> trader_rewards]>>,
                 <<TransferLog(RewardAsset, Pot, who, total_rewards, keep_pot_alive)>>)

claim_rewards_body(s, who, cfg, outcomes) ==
    LET c == ClaimConversions(s, InOrder(AssetOrder, s.pending), outcomes, <<>>)
    IN  IF ~c.ok THEN [Ret(Err(c.err), c.st, <<>>, <<>>) EXCEPT !.converts = c.log]
        ELSE [Settle(c.st, who, cfg) EXCEPT !.converts = c.log]

claim_rewards(s, who, cfg, outcomes) ==
    Transactional(claim_rewards_body(s, who, cfg, outcomes), s)

\* ------------------------------------------------------------ convert
convert_body_swallow(s, asset_id, outcome) ==
    LET asset_balance == s.bal[asset_id][Pot]
        r == Convert(s.bal, asset_id, asset_balance, outcome)
    IN  IF ~(asset_balance > 0) THEN Ret(Err("ZeroAmount"), s, <<>>, <<>>)
        ELSE Ret(Ok(0), [s EXCEPT !.bal = r.bal, !.pending = @ \ {asset_id}], <<>>, <<>>)

convert_body(s, asset_id, outcome) ==
    LET asset_balance == s.bal[asset_id][Pot]
        r == Convert(s.bal, asset_id, asset_balance, outcome)
    IN  IF ~(asset_balance > 0) THEN Ret(Err("ZeroAmount"), s, <<>>, <<>>)
        ELSE IF ~r.ok THEN Ret(Err(r.err), s, <<>>, <<>>)
        ELSE [Ret(Ok(0), [s EXCEPT !.bal = r.bal, !.pending = @ \ {asset_id}],
                  <<[name |-> "Converted", from_asset |-> asset_id, from_amount |-> asset_balance,
                     to_asset |-> RewardAsset, to_amount |-> r.out]>>,
                  <<>>)
              EXCEPT !.converts = <<ConvertLog(asset_id, asset_balance, r)>>]

convert(s, asset_id, outcome) == Transactional(convert_body(s, asset_id, outcome), s)

\* ------------------------------------------------------------ on_idle
Take(seq, n) == SubSeq(seq, 1, Min(n, Len(seq)))

RECURSIVE IdleConversionsStopAtError(_, _, _, _)
IdleConversionsStopAtError(s, assets, outcomes, log) ==
    IF assets = <<>> THEN [st |-> s, log |-> log]
    ELSE LET asset_id == Head(assets)
             asset_balance == s.bal[asset_id][Pot]
             r == Convert(s.bal, asset_id, asset_balance, outcomes[asset_id])
             logged == Append(log, ConvertLog(asset_id, asset_balance, r))
         IN  IF r.ok
             THEN IdleConversionsStopAtError([s EXCEPT !.bal = r.bal, !.pending = @ \ {asset_id}],
                                             Tail(assets), outcomes, logged)
             ELSE [st |-> s, log |-> logged]

\* the conversion loop of on_idle
RECURSIVE IdleConversions(_, _, _, _)
IdleConversions(s, assets, outcomes, log) ==
    IF assets = <<>> THEN [st |-> s, log |-> log]
    ELSE LET asset_id == Head(assets)
             asset_balance == s.bal[asset_id][Pot]
             r == Convert(s.bal, asset_id, asset_balance, outcomes[asset_id])
             logged == Append(log, ConvertLog(asset_id, asset_balance, r))
         IN  IF r.ok
             THEN IdleConversions([s EXCEPT !.bal = r.bal, !.pending = @ \ {asset_id}],
                                  Tail(assets), outcomes, logged)
             ELSE IdleConversions(s, Tail(assets), outcomes, logged)

MaxConvertsNoRead(remaining_weight) == (remaining_weight \div ConvertWeight) + 1

MaxConverts(remaining_weight) == SaturatingSub(remaining_weight, OneRead) \div ConvertWeight

\* the assets on_idle attempts to convert
Attempted(s, remaining_weight) ==
    LET assets == Take(InOrder(AssetOrder, s.pending), MaxConverts(remaining_weight))
    IN  {assets[i] : i \in 1..Len(assets)}

on_idle(s, remaining_weight, outcomes) ==
    IF ConvertWeight = 0 THEN Ret(Ok(0), s, <<>>, <<>>)
    ELSE LET c == IdleConversions(s, Take(InOrder(AssetOrder, s.pending),
                                         MaxConverts(remaining_weight)),
                                  outcomes, <<>>)
         IN  [Ret(Ok(ConvertWeight * MaxConverts(remaining_weight) + OneRead), c.st, <<>>, <<>>)
              EXCEPT !.converts = c.log]

\* ------------------------------------------------------------ set_reward_percentage
PercentageOk(rewards) ==
    /\ PermillCheckedAdd(rewards.referrer, rewards.trader) # -1
    /\ PermillCheckedAdd(PermillCheckedAdd(rewards.referrer, rewards.trader), rewards.external) # -1

set_reward_percentage_body(s, asset_id, level, rewards) ==
    IF ~PercentageOk(rewards) THEN Ret(Err("IncorrectRewardPercentage"), s, <<>>, <<>>)
    ELSE Ret(Ok(0), [s EXCEPT !.assetRewards[asset_id][level] = rewards],
             <<[name |-> "AssetRewardsUpdated", asset_id |-> asset_id, level |-> level,
                rewards |-> rewards]>>,
             <<>>)

set_reward_percentage(s, asset_id, level, rewards) ==
    Transactional(set_reward_percentage_body(s, asset_id, level, rewards), s)

\* ------------------------------------------------------------ register_code, link_code
link_code_body_overwrite(s, who, raw) ==
    LET code == normalize_code(raw)
        ref_account == s.codes[code]
    IN  IF ref_account = NoAccount THEN Ret(Err("InvalidCode"), s, <<>>, <<>>)
        ELSE IF who = ref_account THEN Ret(Err("LinkNotAllowed"), s, <<>>, <<>>)
        ELSE Ret(Ok(0), [s EXCEPT !.linked[who] = ref_account], <<>>, <<>>)

register_code_body_no_record(s, who, raw) ==
    LET code == normalize_code(raw)
        t == Transfer(s.bal, RewardAsset, who, Beneficiary, RegistrationFeeAmount, TRUE)
    IN  IF s.refAccounts[who] # NoCode THEN Ret(Err("AlreadyRegistered"), s, <<>>, <<>>)
        ELSE IF ~(Len(raw) >= MinCodeLength) THEN Ret(Err("TooShort"), s, <<>>, <<>>)
        ELSE IF ~(\A i \in 1..Len(raw) : IsAlphanumeric(raw[i]))
            THEN Ret(Err("InvalidCharacter"), s, <<>>, <<>>)
        ELSE IF s.codes[code] # NoAccount THEN Ret(Err("AlreadyExists"), s, <<>>, <<>>)
        ELSE IF ~t.ok THEN Ret(Err(t.err), s, <<>>, <<>>)
        ELSE Ret(Ok(0),
                 [s EXCEPT !.bal = t.bal, !.codes[code] = who, !.refAccounts[who] = code],
                 <<[name |-> "CodeRegistered", code |-> code, account |-> who]>>,
                 <<TransferLog(RewardAsset, who, Beneficiary, RegistrationFeeAmount, TRUE)>>)

register_code_body(s, who, raw) ==
    LET code == normalize_code(raw)
        t == Transfer(s.bal, RewardAsset, who, Beneficiary, RegistrationFeeAmount, TRUE)
    IN  IF s.refAccounts[who] # NoCode THEN Ret(Err("AlreadyRegistered"), s, <<>>, <<>>)
        ELSE IF ~(Len(raw) >= MinCodeLength) THEN Ret(Err("TooShort"), s, <<>>, <<>>)
        ELSE IF ~(\A i \in 1..Len(raw) : IsAlphanumeric(raw[i]))
            THEN Ret(Err("InvalidCharacter"), s, <<>>, <<>>)
        ELSE IF s.codes[code] # NoAccount THEN Ret(Err("AlreadyExists"), s, <<>>, <<>>)
        ELSE IF ~t.ok THEN Ret(Err(t.err), s, <<>>, <<>>)
        ELSE Ret(Ok(0),
                 [s EXCEPT !.bal = t.bal, !.codes[code] = who,
                           !.referrer[who] = [level |-> DefaultLevel, total |-> 0],
                           !.refAccounts[who] = code],
                 <<[name |-> "CodeRegistered", code |-> code, account |-> who]>>,
                 <<TransferLog(RewardAsset, who, Beneficiary, RegistrationFeeAmount, TRUE)>>)

register_code(s, who, raw) == Transactional(register_code_body(s, who, raw), s)

link_code_body(s, who, raw) ==
    LET code == normalize_code(raw)
        ref_account == s.codes[code]
    IN  IF ref_account = NoAccount THEN Ret(Err("InvalidCode"), s, <<>>, <<>>)
        ELSE IF s.linked[who] # NoAccount THEN Ret(Err("AlreadyLinked"), s, <<>>, <<>>)
        ELSE IF who = ref_account THEN Ret(Err("LinkNotAllowed"), s, <<>>, <<>>)
        ELSE Ret(Ok(0), [s EXCEPT !.linked[who] = ref_account],
                 <<[name |-> "CodeLinked", account |-> who, code |-> code,
                    referral_account |-> ref_account]>>,
                 <<>>)

link_code(s, who, raw) == Transactional(link_code_body(s, who, raw), s)

\* ------------------------------------------------------------ the state machine
Init ==
    /\ balances = [a \in Assets |-> [acc \in Accounts |->
                      IF acc \in Users THEN InitialBalance
                      ELSE IF acc = Pot /\ a = RewardAsset THEN SeedNativeAmount
                      ELSE 0]]
    /\ referralCodes = [c \in NormCodes |-> NoAccount]
    /\ referralAccounts = [acc \in Accounts |-> NoCode]
    /\ linkedAccounts = [acc \in Accounts |-> NoAccount]
    /\ referrerShares = [acc \in Accounts |-> 0]
    /\ traderShares = [acc \in Accounts |-> 0]
    /\ totalShares = 0
    /\ referrer = [acc \in Accounts |-> NoReferrer]
    /\ assetRewards = [a \in Assets |-> [l \in Levels |-> NoRewards]]
    /\ pendingConversions = {}
    /\ \E c \in Configs : externalAccount = c[1] /\ levelConfig = c[2]
    /\ last = [op |-> "init", who |-> NoAccount, res |-> Ok(0), events |-> <<>>,
               transfers |-> <<>>, converts |-> <<>>]
    /\ steps = 0

Step(op, who, r) ==
    /\ steps < MaxSteps
    /\ steps' = steps + 1
    /\ Commit(r.st)
    /\ last' = Observed(op, who, r)
    /\ UNCHANGED config

RegisterCodeCall(who, raw) ==
    Step("register_code", who, register_code(Storage, who, raw))

LinkCodeCall(who, raw) ==
    Step("link_code", who, link_code(Storage, who, raw))

ProcessTradeFeeCall(source, trader, asset_id, amount, price) ==
    Step("process_trade_fee", trader,
         process_trade_fee(Storage, externalAccount, levelConfig, source, trader, asset_id,
                           amount, price))

ConvertCall(asset_id, outcome) ==
    Step("convert", NoAccount, convert(Storage, asset_id, outcome))

ClaimRewardsCall(who, outcomes) ==
    Step("claim_rewards", who, claim_rewards(Storage, who, levelConfig, outcomes))

SetRewardPercentageCall(asset_id, level, rewards) ==
    Step("set_reward_percentage", NoAccount, set_reward_percentage(Storage, asset_id, level, rewards))

OnIdleCall(remaining_weight, outcomes) ==
    Step("on_idle", NoAccount, on_idle(Storage, remaining_weight, outcomes))

RegisterCode == \E who \in Users, raw \in CodeInputs : RegisterCodeCall(who, raw)

LinkCode == \E who \in Users, raw \in CodeInputs : LinkCodeCall(who, raw)

ProcessTradeFee ==
    \E source \in Sources, trader \in Users, asset_id \in Assets, amount \in FeeAmounts,
       price \in Prices :
        ProcessTradeFeeCall(source, trader, asset_id, amount, price)

ConvertAsset == \E asset_id \in Assets, outcome \in ConvertOutcomes : ConvertCall(asset_id, outcome)

ClaimRewards ==
    \E who \in Claimants, outcomes \in [pendingConversions -> ConvertOutcomes] :
        ClaimRewardsCall(who, outcomes)

SetRewardPercentage ==
    \E asset_id \in RewardInputAssets, level \in RewardInputLevels, rewards \in RewardInputs :
        SetRewardPercentageCall(asset_id, level, rewards)

OnIdle ==
    \E remaining_weight \in 0..MaxWeight :
    \E outcomes \in [Attempted(Storage, remaining_weight) -> ConvertOutcomes] :
        OnIdleCall(remaining_weight, outcomes)

Next ==
    \/ RegisterCode
    \/ LinkCode
    \/ ProcessTradeFee
    \/ ConvertAsset
    \/ ClaimRewards
    \/ SetRewardPercentage
    \/ OnIdle

Spec == Init /\ [][Next]_vars

\* ------------------------------------------------------------ Level::increase on its own
\* required volumes of <<None, Tier0, Tier1, Tier2, Tier3, Tier4>> offered as
\* T::LevelVolumeAndRewardPercentages; the third is not increasing
VolumeTables == {<<0, 0, 1, 2, 4, 6>>, <<7, 0, 0, 0, 3, 3>>, <<3, 0, 2, 1, 5, 3>>, <<7, 0, 1, 1, 1, 1>>}

LevelTable(v) ==
    [l \in Levels |-> [volume |-> v[LevelRank(l) + 1], rewards |-> GoodLevelConfig[l].rewards]]

\* a referrer record (level, total) of every kind, under every table
LevelInit ==
    /\ balances = [a \in Assets |-> [acc \in Accounts |->
                      IF acc \in Users THEN InitialBalance
                      ELSE IF acc = Pot /\ a = RewardAsset THEN SeedNativeAmount
                      ELSE 0]]
    /\ referralCodes = [c \in NormCodes |-> NoAccount]
    /\ referralAccounts = [acc \in Accounts |-> NoCode]
    /\ linkedAccounts = [acc \in Accounts |-> NoAccount]
    /\ referrerShares = [acc \in Accounts |-> 0]
    /\ traderShares = [acc \in Accounts |-> 0]
    /\ totalShares = 0
    /\ \E l \in Levels, total \in Balance :
        referrer = [acc \in Accounts |->
                      IF acc = "alice" THEN [level |-> l, total |-> total] ELSE NoReferrer]
    /\ assetRewards = [a \in Assets |-> [l \in Levels |-> NoRewards]]
    /\ pendingConversions = {}
    /\ externalAccount = NoAccount
    /\ \E v \in VolumeTables : levelConfig = LevelTable(v)
    /\ last = [op |-> "init", who |-> NoAccount, res |-> Ok(0), events |-> <<>>,
               transfers |-> <<>>, converts |-> <<>>]
    /\ steps = 0

\* level.increase::<T>(total) on the record of `who`; the call and what it returned
\* are observed. A call that never returns leaves the record as it was.
LevelIncrease ==
    \E who \in {"alice"} :
        LET level == referrer[who].level
            total == referrer[who].total
            new_level == increase(level, total, levelConfig)
        IN  /\ steps = 0
            /\ steps' = 1
            /\ referrer' = IF new_level = "Diverges" THEN referrer
                           ELSE [referrer EXCEPT ![who].level = new_level]
            /\ last' = [op |-> "increase", who |-> who,
                        res |-> IF new_level = "Diverges" THEN Err("Diverges") ELSE Ok(0),
                        events |-> <<[name |-> "increase", from |-> level, amount |-> total,
                                      to |-> new_level]>>,
                        transfers |-> <<>>, converts |-> <<>>]
            /\ UNCHANGED <<balances, referralCodes, referralAccounts, linkedAccounts,
                           referrerShares, traderShares, totalShares, assetRewards,
                           pendingConversions, externalAccount, levelConfig>>

LevelNext == LevelIncrease

LevelSpec == LevelInit /\ [][LevelNext]_vars

\* ------------------------------------------------------------ a referrer and a trader, at length
\* one referrer (alice) and one linked trader (bob), both trading and claiming, followed
\* for MaxReferralSteps calls
ReferralPrices == {<<1, 1>>, <<4, 1>>}
ReferralAssets == {"HDX", "DAI"}
ReferralOutcomes == {[ok |-> TRUE, out |-> n, err |-> ""] : n \in 1..MaxReferralConvertOut}

ReferralStep(op, who, r) ==
    /\ steps < MaxReferralSteps
    /\ steps' = steps + 1
    /\ Commit(r.st)
    /\ last' = Observed(op, who, r)
    /\ UNCHANGED config

ReferralRegister ==
    ReferralStep("register_code", "alice", register_code(Storage, "alice", <<"a", "b">>))

ReferralLink ==
    ReferralStep("link_code", "bob", link_code(Storage, "bob", <<"A", "B">>))

ReferralFee ==
    \E trader \in Users, asset_id \in ReferralAssets, price \in ReferralPrices :
        ReferralStep("process_trade_fee", trader,
                     process_trade_fee(Storage, externalAccount, levelConfig, trader, trader,
                                       asset_id, MaxAmount, price))

ReferralClaim ==
    \E who \in Users, outcomes \in [pendingConversions -> ReferralOutcomes] :
        ReferralStep("claim_rewards", who, claim_rewards(Storage, who, levelConfig, outcomes))

ReferralNext ==
    \/ ReferralRegister
    \/ ReferralLink
    \/ ReferralFee
    \/ ReferralClaim

ReferralSpec == Init /\ [][ReferralNext]_vars

\* ------------------------------------------------------------ the drain, with many assets pending
\* a runtime with five assets besides the reward asset: fees taken in them make them
\* pending, and on_idle drains them
DrainAssets == {"HDX", "DAI", "DOT", "ETH", "BTC", "USDT"}
DrainPrices == {<<1, 2>>}

DrainInit ==
    /\ balances = [a \in DrainAssets |-> [acc \in Accounts |->
                      IF acc \in Users THEN InitialBalance
                      ELSE IF acc = Pot /\ a = RewardAsset THEN SeedNativeAmount
                      ELSE 0]]
    /\ referralCodes = [c \in NormCodes |-> NoAccount]
    /\ referralAccounts = [acc \in Accounts |-> NoCode]
    /\ linkedAccounts = [acc \in Accounts |-> NoAccount]
    /\ referrerShares = [acc \in Accounts |-> 0]
    /\ traderShares = [acc \in Accounts |-> 0]
    /\ totalShares = 0
    /\ referrer = [acc \in Accounts |-> NoReferrer]
    /\ assetRewards = [a \in DrainAssets |-> [l \in Levels |-> NoRewards]]
    /\ pendingConversions = {}
    /\ \E c \in Configs : externalAccount = c[1] /\ levelConfig = c[2]
    /\ last = [op |-> "init", who |-> NoAccount, res |-> Ok(0), events |-> <<>>,
               transfers |-> <<>>, converts |-> <<>>]
    /\ steps = 0

DrainStep(op, who, r) ==
    /\ steps < MaxDrainSteps
    /\ steps' = steps + 1
    /\ Commit(r.st)
    /\ last' = Observed(op, who, r)
    /\ UNCHANGED config

DrainFee ==
    \E source \in Sources, asset_id \in DrainAssets \ {RewardAsset}, price \in DrainPrices :
        DrainStep("process_trade_fee", source,
                  process_trade_fee(Storage, externalAccount, levelConfig, source, source,
                                    asset_id, MaxAmount, price))

DrainIdleCall(remaining_weight, outcomes) ==
    DrainStep("on_idle", NoAccount, on_idle(Storage, remaining_weight, outcomes))

DrainIdle ==
    \E remaining_weight \in 0..MaxWeight :
    \E outcomes \in [Attempted(Storage, remaining_weight) -> ConvertOutcomes] :
        DrainIdleCall(remaining_weight, outcomes)

DrainNext ==
    \/ DrainFee
    \/ DrainIdle

DrainSpec == DrainInit /\ [][DrainNext]_vars

\* ------------------------------------------------------------ codes and links, with two codes
\* two accounts registering and linking codes that differ in more than their case,
\* and trading and claiming in between
CodeSpecInputs == CodeInputs \cup {<<"b", "a">>, <<"B", "a">>}
CodeSpecNormCodes == {normalize_code(c) : c \in CodeSpecInputs}
CodeSpecPrices == {<<1, 1>>}

CodeInit ==
    /\ balances = [a \in Assets |-> [acc \in Accounts |->
                      IF acc \in Users THEN InitialBalance
                      ELSE IF acc = Pot /\ a = RewardAsset THEN SeedNativeAmount
                      ELSE 0]]
    /\ referralCodes = [c \in CodeSpecNormCodes |-> NoAccount]
    /\ referralAccounts = [acc \in Accounts |-> NoCode]
    /\ linkedAccounts = [acc \in Accounts |-> NoAccount]
    /\ referrerShares = [acc \in Accounts |-> 0]
    /\ traderShares = [acc \in Accounts |-> 0]
    /\ totalShares = 0
    /\ referrer = [acc \in Accounts |-> NoReferrer]
    /\ assetRewards = [a \in Assets |-> [l \in Levels |-> NoRewards]]
    /\ pendingConversions = {}
    /\ \E c \in Configs : externalAccount = c[1] /\ levelConfig = c[2]
    /\ last = [op |-> "init", who |-> NoAccount, res |-> Ok(0), events |-> <<>>,
               transfers |-> <<>>, converts |-> <<>>]
    /\ steps = 0

CodeStep(op, who, r) ==
    /\ steps < MaxCodeSteps
    /\ steps' = steps + 1
    /\ Commit(r.st)
    /\ last' = Observed(op, who, r)
    /\ UNCHANGED config

CodeRegisterCall(who, raw) ==
    CodeStep("register_code", who, register_code(Storage, who, raw))

CodeLinkCall(who, raw) ==
    CodeStep("link_code", who, link_code(Storage, who, raw))

CodeRegister == \E who \in Users, raw \in CodeSpecInputs : CodeRegisterCall(who, raw)

CodeLink == \E who \in Users, raw \in CodeSpecInputs : CodeLinkCall(who, raw)

CodeFee ==
    \E trader \in Users, price \in CodeSpecPrices :
        CodeStep("process_trade_fee", trader,
                 process_trade_fee(Storage, externalAccount, levelConfig, trader, trader,
                                   RewardAsset, MaxAmount, price))

CodeClaim ==
    \E who \in Users, outcomes \in [pendingConversions -> ConvertOutcomes] :
        CodeStep("claim_rewards", who, claim_rewards(Storage, who, levelConfig, outcomes))

CodeNext ==
    \/ CodeRegister
    \/ CodeLink
    \/ CodeFee
    \/ CodeClaim

CodeSpec == CodeInit /\ [][CodeNext]_vars

\* ------------------------------------------------------------ drain cycles without end
\* fees arrive in any order and on_idle runs block after block, every time with a
\* budget that covers at least one conversion. T::Convert has no route for the assets
\* of CycleFailing, whose conversion fails in every cycle; every other asset converts.
CycleFailing == {"DAI"}

CycleOutcome(asset_id) ==
    IF asset_id \in CycleFailing THEN [ok |-> FALSE, out |-> 0, err |-> "Other"]
    ELSE [ok |-> TRUE, out |-> MaxConvertOut, err |-> ""]

CycleOutcomes == [a \in Assets |-> CycleOutcome(a)]

CycleBudgets == {w \in 0..MaxWeight : MaxConverts(w) >= 1}

CycleInit == Init

\* `steps` holds the parity of the number of the block on_idle last ran in
CycleStep(op, who, r, n) ==
    /\ steps' = n
    /\ Commit(r.st)
    /\ last' = Observed(op, who, r)
    /\ UNCHANGED config

CycleFee ==
    \E source \in Users, asset_id \in Assets \ {RewardAsset}, price \in DrainPrices :
        CycleStep("process_trade_fee", source,
                  process_trade_fee(Storage, externalAccount, levelConfig, source, source,
                                    asset_id, MaxAmount, price),
                  steps)

CycleIdleCall(remaining_weight) ==
    CycleStep("on_idle", NoAccount, on_idle(Storage, remaining_weight, CycleOutcomes),
              1 - (steps % 2))

CycleIdle == \E remaining_weight \in CycleBudgets : CycleIdleCall(remaining_weight)

CycleNext ==
    \/ CycleFee
    \/ CycleIdle

\* the runtime calls on_idle in every block
CycleSpec == CycleInit /\ [][CycleNext]_vars /\ WF_vars(CycleIdle)

\* ------------------------------------------------------------ omnipool: BalanceUpdate
Increase(a) == [kind |-> "Increase", value |-> a]
Decrease(a) == [kind |-> "Decrease", value |-> a]

\* Option::None of a checked operation on BalanceUpdate
NoUpdate == [kind |-> "None", value |-> 0]

\* a + b panicked on overflow
Panicked == [kind |-> "Panic", value |-> 0]

BalanceUpdates == {Increase(a) : a \in Balance} \cup {Decrease(a) : a \in Balance}

\* u128::checked_sub: -1 stands for None
CheckedSub(a, b) == IF a < b THEN -1 ELSE a - b

\* `?` on the Option of the amount, then Some(update)
SomeUpdate(kind, amount) == IF amount = -1 THEN NoUpdate ELSE [kind |-> kind, value |-> amount]

\* a + b of Balance: with overflow checks it panics, without them it wraps
PlusOutcomes(kind, a, b) ==
    IF a + b > MaxBalance
    THEN {Panicked, [kind |-> kind, value |-> (a + b) % (MaxBalance + 1)]}
    ELSE {[kind |-> kind, value |-> a + b]}

\* impl Add for BalanceUpdate: the results the call can have
BalanceUpdateAdd(u, v) ==
    LET a == u.value
        b == v.value
    IN  CASE u.kind = "Increase" /\ v.kind = "Increase" -> PlusOutcomes("Increase", a, b)
          [] u.kind = "Decrease" /\ v.kind = "Decrease" -> PlusOutcomes("Decrease", a, b)
          [] u.kind = "Increase" /\ v.kind = "Decrease" ->
                IF a >= b THEN {Increase(a - b)} ELSE {Decrease(b - a)}
          [] OTHER ->
                IF a >= b THEN {Decrease(a - b)} ELSE {Increase(b - a)}

\* impl CheckedAdd for BalanceUpdate
BalanceUpdateCheckedAdd(u, v) ==
    LET a == u.value
        b == v.value
    IN  CASE u.kind = "Increase" /\ v.kind = "Increase" -> SomeUpdate("Increase", CheckedAdd(a, b))
          [] u.kind = "Decrease" /\ v.kind = "Decrease" -> SomeUpdate("Decrease", CheckedAdd(a, b))
          [] u.kind = "Increase" /\ v.kind = "Decrease" ->
                IF a >= b THEN SomeUpdate("Increase", CheckedSub(a, b))
                ELSE SomeUpdate("Increase", CheckedSub(b, a))
          [] OTHER ->
                IF a >= b THEN SomeUpdate("Decrease", CheckedSub(a, b))
                ELSE SomeUpdate("Increase", CheckedSub(b, a))

\* BalanceUpdate::diff
BalanceUpdateDiff(u, v) == BalanceUpdateCheckedAdd(u, v)

\* the two updates a call is made on, every pair of them
UpdateInit ==
    /\ balances = [a \in Assets |-> [acc \in Accounts |->
                      IF acc \in Users THEN InitialBalance
                      ELSE IF acc = Pot /\ a = RewardAsset THEN SeedNativeAmount
                      ELSE 0]]
    /\ referralCodes = [c \in NormCodes |-> NoAccount]
    /\ referralAccounts = [acc \in Accounts |-> NoCode]
    /\ linkedAccounts = [acc \in Accounts |-> NoAccount]
    /\ referrerShares = [acc \in Accounts |-> 0]
    /\ traderShares = [acc \in Accounts |-> 0]
    /\ totalShares = 0
    /\ referrer = [acc \in Accounts |-> NoReferrer]
    /\ assetRewards = [a \in Assets |-> [l \in Levels |-> NoRewards]]
    /\ pendingConversions = {}
    /\ externalAccount = NoAccount
    /\ levelConfig = GoodLevelConfig
    /\ \E u \in BalanceUpdates, v \in BalanceUpdates :
        last = [op |-> "init", who |-> NoAccount, res |-> Ok(0),
                events |-> <<[name |-> "updates", lhs |-> u, rhs |-> v, result |-> NoUpdate]>>,
                transfers |-> <<>>, converts |-> <<>>]
    /\ steps = 0

\* a call on the two updates; the call and what it returned are observed
UpdateStep(op, result) ==
    /\ steps = 0
    /\ steps' = 1
    /\ last' = [last EXCEPT !.op = op,
                            !.events = <<[name |-> op, lhs |-> last.events[1].lhs,
                                          rhs |-> last.events[1].rhs, result |-> result]>>]
    /\ UNCHANGED <<balances, referralCodes, referralAccounts, linkedAccounts, referrerShares,
                   traderShares, totalShares, referrer, assetRewards, pendingConversions,
                   externalAccount, levelConfig>>

UpdateCheckedAdd ==
    UpdateStep("checked_add", BalanceUpdateCheckedAdd(last.events[1].lhs, last.events[1].rhs))

UpdateDiff ==
    UpdateStep("diff", BalanceUpdateDiff(last.events[1].lhs, last.events[1].rhs))

UpdateAdd ==
    \E result \in BalanceUpdateAdd(last.events[1].lhs, last.events[1].rhs) :
        UpdateStep("add", result)

UpdateNext ==
    \/ UpdateCheckedAdd
    \/ UpdateDiff
    \/ UpdateAdd

UpdateSpec == UpdateInit /\ [][UpdateNext]_vars

\* ------------------------------------------------------------ properties
RECURSIVE SetSum(_, _)
SetSum(f, S) ==
    IF S = {} THEN 0
    ELSE LET x == CHOOSE y \in S : TRUE IN f[x] + SetSum(f, S \ {x})

SharesUnchanged ==
    /\ referrerShares' = referrerShares
    /\ traderShares' = traderShares
    /\ totalShares' = totalShares

PricedInputs == Prices \ {NoPrice}

\* the distribution a fee of `trader` in `asset_id` is split by
ResolvedLevel(trader) ==
    IF linkedAccounts[trader] # NoAccount THEN referrer[linkedAccounts[trader]].level ELSE "None"

ResolvedDistribution(trader, asset_id) ==
    IF assetRewards[asset_id][ResolvedLevel(trader)] # NoRewards
    THEN assetRewards[asset_id][ResolvedLevel(trader)]
    ELSE levelConfig[ResolvedLevel(trader)].rewards

FloorReward(fraction, amount) == (fraction * amount) \div 1000000

FloorShares(fraction, amount, price) == (FloorReward(fraction, amount) * price[1]) \div price[2]

\* a successful process_trade_fee of `amount` at `price` was the step taken; a fee
\* taken at a price always makes its one transfer, which names the source and the asset
PricedFeeTaken(amount, price) ==
    /\ last'.op = "process_trade_fee"
    /\ last'.res.ok
    /\ Len(last'.transfers) = 1
    /\ ProcessTradeFeeCall(last'.transfers[1].from, last'.who, last'.transfers[1].asset,
                           amount, price)

\* C1: in every reachable state total_shares equals the sum of referrer_shares over
\* all accounts plus the sum of trader_shares over all accounts.
C1_TotalSharesIsSum ==
    totalShares = SetSum(referrerShares, Accounts) + SetSum(traderShares, Accounts)

\* C2: a successful claim by an account with non-zero shares transfers at most the
\* distributable balance (the pot's reward balance after the conversions minus the
\* seed), and total_shares decreases by exactly the claimant's shares before the claim.
C2_ClaimPayoutAndBurn ==
    [][(last'.op = "claim_rewards" /\ last'.res.ok
          /\ referrerShares[last'.who] + traderShares[last'.who] > 0)
        => LET who == last'.who
               paid == balances'[RewardAsset][who] - balances[RewardAsset][who]
               distributable == balances'[RewardAsset][Pot] + paid - SeedNativeAmount
           IN  /\ paid <= distributable
               /\ totalShares' = totalShares - (referrerShares[who] + traderShares[who])]_vars

C4_FeeCreditsShares ==
    [][\A amount \in FeeAmounts, price \in PricedInputs :
        PricedFeeTaken(amount, price)
        => LET source == last'.transfers[1].from
               trader == last'.who
               asset_id == last'.transfers[1].asset
               d == ResolvedDistribution(trader, asset_id)
               ref == linkedAccounts[trader]
               rs == IF ref # NoAccount THEN FloorShares(d.referrer, amount, price) ELSE 0
               ts == FloorShares(d.trader, amount, price)
               es == IF externalAccount # NoAccount
                     THEN FloorShares(d.external, amount, price) ELSE 0
           IN  /\ referrerShares' = [a \in Accounts |->
                     referrerShares[a] + (IF a = ref THEN rs ELSE 0)]
               /\ traderShares' = [a \in Accounts |->
                     traderShares[a] + (IF a = trader THEN ts ELSE 0)
                                     + (IF a = externalAccount THEN es ELSE 0)]
               /\ totalShares' = totalShares + rs + ts + es]_vars

C6_FailedFeeChangesNothing ==
    [][(last'.op = "process_trade_fee" /\ ~last'.res.ok)
        => /\ balances' = balances
           /\ SharesUnchanged
           /\ pendingConversions' = pendingConversions]_vars

\* a fee that failed with an overflow of the shares, after its transfer was made
C6_Witness ==
    /\ last.op = "process_trade_fee"
    /\ ~last.res.ok
    /\ last.res.err = "Overflow"

\* C7: without a price process_trade_fee returns Ok(0) and changes nothing: no
\* transfer, no shares, total_shares and the pending-conversion set unchanged.
C7_NoPriceNoOp ==
    [][\A source \in Sources, asset_id \in Assets, amount \in FeeAmounts :
        (last'.op = "process_trade_fee"
           /\ ProcessTradeFeeCall(source, last'.who, asset_id, amount, NoPrice))
        => /\ last'.res = Ok(0)
           /\ last'.transfers = <<>>
           /\ balances' = balances
           /\ SharesUnchanged
           /\ pendingConversions' = pendingConversions]_vars

C7_Witness ==
    /\ last.op = "process_trade_fee"
    /\ last.res = Ok(0)
    /\ last.transfers = <<>>
    /\ steps > 0

\* C8: after a successful fee in a priced asset other than the reward asset that asset
\* is pending; a fee in an asset already pending leaves the set as it was; the reward
\* asset is never pending.
C8_PendingAfterFee ==
    /\ [](RewardAsset \notin pendingConversions)
    /\ [][(last'.op = "process_trade_fee" /\ last'.res.ok /\ Len(last'.transfers) = 1)
           => LET asset_id == last'.transfers[1].asset
              IN  /\ asset_id # RewardAsset => asset_id \in pendingConversions'
                  /\ asset_id \in pendingConversions
                        => pendingConversions' = pendingConversions
                  /\ pendingConversions' \subseteq pendingConversions \cup {asset_id}]_vars

C8_Witness ==
    /\ last.op = "process_trade_fee"
    /\ last.res.ok
    /\ Len(last.transfers) = 1
    /\ last.transfers[1].asset # RewardAsset
    /\ last.transfers[1].asset \in pendingConversions
    /\ Cardinality(pendingConversions) = 2

\* C9: every asset in the pending-conversion set is one of which the pot holds a
\* non-zero balance.
C9_PendingHeldByPot ==
    \A a \in pendingConversions : balances[a][Pot] > 0

ZeroShareClaim ==
    /\ last'.op = "claim_rewards"
    /\ referrerShares[last'.who] = 0
    /\ traderShares[last'.who] = 0

\* C10 as stated: a claim by an account with no shares returns success, changes no
\* balance of the claimant or of the pot, changes no shares and emits no notification.
C10_ZeroShareClaimChangesNothing ==
    [][ZeroShareClaim
        => /\ last'.res.ok
           /\ \A a \in Assets : /\ balances'[a][last'.who] = balances[a][last'.who]
                                /\ balances'[a][Pot] = balances[a][Pot]
           /\ SharesUnchanged
           /\ last'.events = <<>>]_vars

\* C10 as amended: a claim by an account with no shares first converts the pending
\* assets. If a conversion fails with an error that is not tolerated the claim fails
\* and nothing changes; otherwise it returns success, changes no balance of the
\* claimant, changes no shares, makes no transfer and emits no notification, and the
\* pot's balances change only by the conversions made (not at all when nothing is
\* pending).
C10_ZeroShareClaim ==
    [][ZeroShareClaim
        => /\ \A a \in Assets : balances'[a][last'.who] = balances[a][last'.who]
           /\ SharesUnchanged
           /\ last'.events = <<>>
           /\ last'.transfers = <<>>
           /\ pendingConversions = {} => (last'.res.ok /\ balances' = balances)
           /\ ~last'.res.ok => (balances' = balances /\ pendingConversions' = pendingConversions)
           /\ last'.res.ok <=>
                (\A i \in 1..Len(last'.converts) :
                    last'.converts[i].ok \/ last'.converts[i].err \in ToleratedConvertErrors)
           /\ \A a \in Assets \ {RewardAsset} :
                balances'[a][Pot] # balances[a][Pot]
                    => (a \in pendingConversions /\ a \notin pendingConversions'
                        /\ balances'[a][Pot] = 0)
           /\ balances'[RewardAsset][Pot] # balances[RewardAsset][Pot]
                    => pendingConversions' # pendingConversions]_vars

\* a claim by an account with no shares that converted a pending asset
C10_Witness ==
    /\ last.op = "claim_rewards"
    /\ last.res.ok
    /\ last.events = <<>>
    /\ \E i \in 1..Len(last.converts) : last.converts[i].ok

\* the conversions a claim attempted, as the set of their assets
ConvertedAssets(log) == {log[i].asset : i \in 1..Len(log)}

\* a claim was the step taken
ClaimTaken == last'.op = "claim_rewards"

\* C11: in claim_rewards a conversion failing with ConversionMinTradingAmountNotReached
\* or ConversionZeroAmountReceived is skipped (its asset stays pending) and the claim
\* goes on to the next pending asset; a conversion failing with any other error makes
\* the claim fail with that error and leaves shares, total_shares, balances, referrer
\* records and the pending-conversion set as they were, assets converted earlier in the
\* same call included.
C11_ClaimConversionErrors ==
    [][ClaimTaken
        => LET log == last'.converts
               Skipped(i) == /\ ~log[i].ok
                             /\ log[i].err \in {"ConversionMinTradingAmountNotReached",
                                                "ConversionZeroAmountReceived"}
               Fatal(i) == ~log[i].ok /\ ~Skipped(i)
           IN  /\ \A i \in 1..Len(log) :
                    /\ Skipped(i) => /\ log[i].asset \in pendingConversions'
                                     /\ (i < Len(log) \/ Len(log) = Cardinality(pendingConversions))
                    /\ Fatal(i) => /\ i = Len(log)
                                   /\ last'.res = Err(log[i].err)
                                   /\ SharesUnchanged
                                   /\ balances' = balances
                                   /\ referrer' = referrer
                                   /\ pendingConversions' = pendingConversions
               /\ (\A i \in 1..Len(log) : ~Fatal(i)) => Len(log) = Cardinality(pendingConversions)]_vars

\* a claim that converted one pending asset and then failed on the next
C11_Witness ==
    /\ last.op = "claim_rewards"
    /\ last.res = Err("Other")
    /\ Len(last.converts) = 2
    /\ last.converts[1].ok
    /\ Cardinality(pendingConversions) = 2

\* C12: claim_rewards attempts the conversion of every pending asset before it reads
\* the pot's reward balance for the payout, and after a successful claim the pending
\* set holds exactly the assets whose conversion failed with one of the two tolerated
\* errors.
C12_ClaimDrainsPending ==
    [][(ClaimTaken /\ last'.res.ok)
        => LET log == last'.converts
               who == last'.who
               received == SetSum([a \in Assets |->
                              SetSum([i \in 1..Len(log) |->
                                        IF log[i].asset = a /\ log[i].ok THEN log[i].out ELSE 0],
                                     1..Len(log))], Assets)
               D == balances[RewardAsset][Pot] + received - SeedNativeAmount
               paid == balances'[RewardAsset][who] - balances[RewardAsset][who]
           IN  /\ ConvertedAssets(log) = pendingConversions
               /\ Len(log) = Cardinality(pendingConversions)
               /\ pendingConversions' =
                    {log[i].asset : i \in {j \in 1..Len(log) :
                        /\ ~log[j].ok
                        /\ log[j].err \in {"ConversionMinTradingAmountNotReached",
                                            "ConversionZeroAmountReceived"}}}
               /\ referrerShares[who] + traderShares[who] > 0
                    => /\ totalShares > 0
                       /\ paid = ((referrerShares[who] * D) \div totalShares)
                                 + ((traderShares[who] * D) \div totalShares)]_vars

\* a successful claim that paid out what a conversion of the same call brought in,
\* and left pending an asset whose conversion was skipped
C12_Witness ==
    /\ last.op = "claim_rewards"
    /\ last.res.ok
    /\ Len(last.converts) = 2
    /\ \E i \in 1..2 : last.converts[i].ok
    /\ Cardinality(pendingConversions) = 1
    /\ Len(last.transfers) = 1
    /\ last.transfers[1].amount > 0

Tiers == {"Tier0", "Tier1", "Tier2", "Tier3", "Tier4"}

\* C13: for every referrer account the stored level never decreases (in the order
\* Tier0 < Tier1 < Tier2 < Tier3 < Tier4) and the stored cumulative total never
\* decreases, whatever operation is made.
C13_LevelAndTotalMonotone ==
    [][\A a \in Accounts :
        referrer[a] # NoReferrer
        => /\ referrer'[a] # NoReferrer
           /\ referrer'[a].level \in Tiers
           /\ LevelRank(referrer'[a].level) >= LevelRank(referrer[a].level)
           /\ referrer'[a].total >= referrer[a].total]_vars

\* a referrer above Tier0 was paid by a further claim and kept the level
C13_Witness ==
    /\ last.op = "claim_rewards"
    /\ last.res.ok
    /\ referrer[last.who] # NoReferrer
    /\ LevelRank(referrer[last.who].level) > LevelRank("Tier0")
    /\ Len(last.events) = 1
    /\ last.events[1].name = "Claimed"
    /\ last.events[1].referrer_rewards > 0

\* tier l2 is reached from tier l with total c: every tier above l up to l2 has its
\* required volume met
Reached(l, l2, c) ==
    /\ LevelRank(l2) >= LevelRank(l)
    /\ \A m \in Tiers :
        (LevelRank(l) < LevelRank(m) /\ LevelRank(m) <= LevelRank(l2)) => levelConfig[m].volume <= c

\* the highest tier reached from l with total c
Highest(l, c) ==
    CHOOSE l2 \in Tiers :
        /\ Reached(l, l2, c)
        /\ \A m \in Tiers : Reached(l, m, c) => LevelRank(m) <= LevelRank(l2)

\* C14: level progression from a tier L with total c returns the highest tier L' >= L
\* such that every tier in (L, L'] has its required volume <= c: it can advance
\* several tiers at once, never beyond Tier4, and returns L when the threshold of the
\* next tier is not met.
C14_IncreaseReachesHighest ==
    [][(last'.op = "increase" /\ referrer["alice"].level \in Tiers)
        => LET l == referrer["alice"].level
               c == referrer["alice"].total
               l2 == referrer'["alice"].level
           IN  /\ last'.res.ok
               /\ l2 = Highest(l, c)
               /\ l2 \in Tiers
               /\ (l # "Tier4" /\ c < levelConfig[next_level(l)].volume) => l2 = l]_vars

\* a progression over several tiers in one call that stopped below Tier4
C14_Witness ==
    /\ last.op = "increase"
    /\ last.events[1].from \in Tiers
    /\ LevelRank(last.events[1].to) >= LevelRank(last.events[1].from) + 2
    /\ last.events[1].to # "Tier4"
    /\ referrer["alice"].level = last.events[1].to

LevelUps(events) == SelectSeq(events, LAMBDA e : e.name = "LevelUp")

\* C15: on a successful claim by a registered referrer the cumulative total grows by
\* exactly the referrer portion of the payout (not the trader portion), the level is
\* recomputed from the new total, and LevelUp is emitted exactly when the level
\* changed, once, with the final level; a claim by an account that is not a registered
\* referrer creates no referrer record and emits no LevelUp.
C15_ClaimUpdatesReferrer ==
    [][(ClaimTaken /\ last'.res.ok)
        => LET who == last'.who
               paid == balances'[RewardAsset][who] - balances[RewardAsset][who]
               D == balances'[RewardAsset][Pot] + paid - SeedNativeAmount
               portion == IF referrerShares[who] = 0 THEN 0
                          ELSE (referrerShares[who] * D) \div totalShares
           IN  /\ \A a \in Accounts \ {who} : referrer'[a] = referrer[a]
               /\ referrer[who] = NoReferrer
                    => (referrer'[who] = NoReferrer /\ LevelUps(last'.events) = <<>>)
               /\ referrer[who] # NoReferrer
                    => /\ referrer'[who] # NoReferrer
                       /\ referrer'[who].total = referrer[who].total + portion
                       /\ referrer'[who].level = Highest(referrer[who].level, referrer'[who].total)
                       /\ LevelUps(last'.events) =
                            IF referrer'[who].level # referrer[who].level
                            THEN <<[name |-> "LevelUp", who |-> who,
                                    level |-> referrer'[who].level]>>
                            ELSE <<>>]_vars

\* a claim that took a referrer over more than one tier, with one LevelUp
C15_Witness ==
    /\ last.op = "claim_rewards"
    /\ last.res.ok
    /\ Len(last.events) = 2
    /\ last.events[1].name = "LevelUp"
    /\ LevelRank(last.events[1].level) >= LevelRank("Tier2")
    /\ referrer[last.who].total = last.events[2].referrer_rewards
    /\ last.events[2].trade_rewards > 0

\* a successful claim by an account that holds every share
ClaimOfAllShares ==
    /\ ClaimTaken
    /\ last'.res.ok
    /\ totalShares > 0
    /\ referrerShares[last'.who] + traderShares[last'.who] = totalShares

Covers(budget) ==
    LET fit == {k \in 0..budget : k * ConvertWeight + OneRead <= budget}
    IN  IF fit = {} THEN 0 ELSE CHOOSE k \in fit : \A j \in fit : j <= k

\* C17: on_idle with a budget that covers exactly k conversions and m assets pending
\* attempts the conversion of exactly min(k, m) assets, never more than k; with k = 2
\* and m = 5 it converts 2 assets and leaves 3 pending.
C17_DrainAttemptsAtMostBudget ==
    [][\A remaining_weight \in 0..MaxWeight :
        (/\ last'.op = "on_idle"
         /\ \E outcomes \in [Attempted(Storage, remaining_weight) -> ConvertOutcomes] :
                DrainIdleCall(remaining_weight, outcomes))
        => LET k == Covers(remaining_weight)
               m == Cardinality(pendingConversions)
               log == last'.converts
               converted == {log[i].asset : i \in {j \in 1..Len(log) : log[j].ok}}
           IN  /\ Len(log) = Min(k, m)
               /\ Len(log) <= k
               /\ Cardinality(ConvertedAssets(log)) = Len(log)
               /\ ConvertedAssets(log) \subseteq pendingConversions
               /\ pendingConversions' = pendingConversions \ converted
               /\ Cardinality(pendingConversions') >= m - Min(k, m)
               /\ (k = 2 /\ m = 5 /\ Cardinality(converted) = Len(log))
                    => Cardinality(pendingConversions') = 3]_vars

\* a drain with five assets pending that converted two and left three
C17_Witness ==
    /\ last.op = "on_idle"
    /\ Len(last.converts) = 2
    /\ last.converts[1].ok
    /\ last.converts[2].ok
    /\ Cardinality(pendingConversions) = 3
    /\ steps = 6

\* on_idle was the step taken, with this budget
IdleTaken(remaining_weight) ==
    /\ last'.op = "on_idle"
    /\ \E outcomes \in [Attempted(Storage, remaining_weight) -> ConvertOutcomes] :
            OnIdleCall(remaining_weight, outcomes)

\* C18: for every budget given to on_idle, budgets smaller than the cost of one
\* storage read or of one conversion included, the budget it reports as consumed is no
\* greater than the budget it was given.
C18_DrainWithinBudget ==
    [][\A remaining_weight \in 0..MaxWeight :
        IdleTaken(remaining_weight) => last'.res.val <= remaining_weight]_vars

\* C19: with a budget too small for even one conversion on_idle makes no conversion
\* and reports zero budget consumed.
C19_DrainReportsZero ==
    [][\A remaining_weight \in 0..MaxWeight :
        (IdleTaken(remaining_weight) /\ Covers(remaining_weight) = 0)
        => /\ last'.converts = <<>>
           /\ last'.res.val = 0]_vars

\* C20: on_idle never fails: after a conversion error of any kind it goes on to the
\* next asset, the failing asset stays pending, an asset leaves the pending set only
\* when its conversion succeeded, and shares, total_shares and the referrer records
\* are unchanged.
C20_DrainNeverFails ==
    [][\A remaining_weight \in 0..MaxWeight :
        IdleTaken(remaining_weight)
        => LET log == last'.converts
               converted == {log[i].asset : i \in {j \in 1..Len(log) : log[j].ok}}
           IN  /\ last'.res.ok
               /\ Len(log) = Min(Covers(remaining_weight), Cardinality(pendingConversions))
               /\ Cardinality(ConvertedAssets(log)) = Len(log)
               /\ \A i \in 1..Len(log) : ~log[i].ok => log[i].asset \in pendingConversions'
               /\ pendingConversions' = pendingConversions \ converted
               /\ SharesUnchanged
               /\ referrer' = referrer
               /\ last'.events = <<>>]_vars

\* a drain whose first conversion failed with an error that a claim does not tolerate
\* and whose second conversion succeeded, while shares are held
C20_Witness ==
    /\ last.op = "on_idle"
    /\ Len(last.converts) = 2
    /\ ~last.converts[1].ok
    /\ last.converts[1].err = "Other"
    /\ last.converts[2].ok
    /\ pendingConversions = {last.converts[1].asset}
    /\ totalShares > 0

\* convert(asset_id) was the step taken, the conversion having this outcome
ConvertTaken(asset_id, outcome) ==
    /\ last'.op = "convert"
    /\ ConvertCall(asset_id, outcome)

\* C21: convert(asset) converts that one asset and no other; when the conversion fails
\* the call fails with the conversion's error and the pending set and all balances are
\* as before; the asset leaves the pending set only when the conversion succeeded.
C21_ConvertOneAsset ==
    [][\A asset_id \in Assets, outcome \in ConvertOutcomes :
        ConvertTaken(asset_id, outcome)
        => /\ \A a \in Assets, acc \in Accounts :
                balances'[a][acc] # balances[a][acc]
                    => (acc = Pot /\ a \in {asset_id, RewardAsset})
           /\ pendingConversions' \in {pendingConversions, pendingConversions \ {asset_id}}
           /\ last'.res.ok
                => /\ outcome.ok
                   /\ asset_id \notin pendingConversions'
                   /\ balances'[asset_id][Pot] = 0
                   /\ balances'[RewardAsset][Pot] = balances[RewardAsset][Pot] + outcome.out
                   /\ last'.converts = <<[asset |-> asset_id, amount |-> balances[asset_id][Pot],
                                          ok |-> TRUE, out |-> outcome.out, err |-> ""]>>
           /\ ~last'.res.ok
                => /\ pendingConversions' = pendingConversions
                   /\ balances' = balances
           /\ (~outcome.ok /\ balances[asset_id][Pot] > 0 /\ asset_id # RewardAsset)
                => last'.res = Err(outcome.err)
           /\ SharesUnchanged]_vars

\* one of two pending assets was converted by convert, the other is still pending
C21_Witness ==
    /\ last.op = "convert"
    /\ last.res.ok
    /\ Len(last.converts) = 1
    /\ Cardinality(pendingConversions) = 1
    /\ \E a \in pendingConversions : balances[a][Pot] > 0

\* C22: convert of an asset of which the pot holds nothing is a no-op and no error: it
\* returns success and changes no state.
C22_ConvertOfNothingSucceeds ==
    [][\A asset_id \in Assets, outcome \in ConvertOutcomes :
        (ConvertTaken(asset_id, outcome) /\ balances[asset_id][Pot] = 0)
        => /\ last'.res.ok
           /\ balances' = balances
           /\ pendingConversions' = pendingConversions
           /\ SharesUnchanged]_vars

\* set_reward_percentage(asset_id, level, rewards) was the step taken
SetRewardsTaken(asset_id, level, rewards) ==
    /\ last'.op = "set_reward_percentage"
    /\ SetRewardPercentageCall(asset_id, level, rewards)

\* C23: set_reward_percentage(asset, level, d) succeeds and stores d when d.referrer +
\* d.trader + d.external is at most 100% (exactly 100% included); when the sum is above
\* 100% it fails with IncorrectRewardPercentage and the stored distribution of every
\* (asset, level) is unchanged.
C23_SetRewardPercentage ==
    [][\A asset_id \in RewardInputAssets, level \in RewardInputLevels, d \in RewardInputs :
        SetRewardsTaken(asset_id, level, d)
        => IF d.referrer + d.trader + d.external <= 1000000
           THEN /\ last'.res.ok
                /\ assetRewards' = [assetRewards EXCEPT ![asset_id][level] = d]
           ELSE /\ last'.res = Err("IncorrectRewardPercentage")
                /\ assetRewards' = assetRewards]_vars

\* a distribution of exactly 100% was stored by a call that was not the first
C23_Witness ==
    /\ last.op = "set_reward_percentage"
    /\ last.res.ok
    /\ \E a \in RewardInputAssets, l \in RewardInputLevels :
        /\ assetRewards[a][l] # NoRewards
        /\ assetRewards[a][l].referrer + assetRewards[a][l].trader
             + assetRewards[a][l].external = 1000000
    /\ steps > 1

\* C24: fee intake for (asset, level) uses the distribution most recently stored by a
\* successful set_reward_percentage(asset, level, .) if there is one and else the global
\* default of the level; setting the distribution of one pair changes the distribution
\* of no other pair. The stored distribution is written by a successful
\* set_reward_percentage only, at its own pair, and a priced fee takes the rewards, and
\* credits the shares (each where the addition stays in the Balance range), of the
\* distribution stored for its pair, or of the default when none is stored.
C24_FeeUsesStoredDistribution ==
    [][/\ \A asset_id \in RewardInputAssets, level \in RewardInputLevels, d \in RewardInputs :
            SetRewardsTaken(asset_id, level, d)
            => \A a \in Assets, l \in Levels :
                    assetRewards'[a][l] =
                        IF last'.res.ok /\ a = asset_id /\ l = level THEN d
                        ELSE assetRewards[a][l]
       /\ last'.op # "set_reward_percentage" => assetRewards' = assetRewards
       /\ \A amount \in FeeAmounts, price \in PricedInputs :
            PricedFeeTaken(amount, price)
            => LET trader == last'.who
                   asset_id == last'.transfers[1].asset
                   level == ResolvedLevel(trader)
                   d == IF assetRewards[asset_id][level] # NoRewards
                        THEN assetRewards[asset_id][level]
                        ELSE levelConfig[level].rewards
                   ref == linkedAccounts[trader]
                   rr == IF ref # NoAccount THEN FloorReward(d.referrer, amount) ELSE 0
                   tr == FloorReward(d.trader, amount)
                   er == IF externalAccount # NoAccount THEN FloorReward(d.external, amount) ELSE 0
                   rs == IF ref # NoAccount THEN FloorShares(d.referrer, amount, price) ELSE 0
                   ts == FloorShares(d.trader, amount, price)
                   es == IF externalAccount # NoAccount
                         THEN FloorShares(d.external, amount, price) ELSE 0
               IN  /\ last'.res.val = rr + tr + er
                   /\ totalShares + rs + ts + es <= MaxBalance
                        => totalShares' = totalShares + rs + ts + es
                   /\ traderShares[trader] + ts <= MaxBalance
                        => traderShares'[trader] = traderShares[trader] + ts
                   /\ (ref # NoAccount /\ referrerShares[ref] + rs <= MaxBalance)
                        => referrerShares'[ref] = referrerShares[ref] + rs]_vars

\* a fee taken by a distribution that was stored for its pair and replaced an earlier
\* one, where the default of the level would have taken less
C24_Witness ==
    /\ last.op = "process_trade_fee"
    /\ last.res.ok
    /\ Len(last.transfers) = 1
    /\ last.transfers[1].asset \in RewardInputAssets
    /\ linkedAccounts[last.who] = NoAccount
    /\ assetRewards[last.transfers[1].asset]["None"] = FeeDist(0, 1000000, 0)
    /\ last.res.val = MaxAmount
    /\ steps = 3

\* C25: referrer_shares, trader_shares and total_shares increase only in
\* process_trade_fee and decrease only in claim_rewards: register_code, link_code,
\* convert, set_reward_percentage and on_idle leave the three unchanged,
\* process_trade_fee never decreases one of them and claim_rewards never increases one.
C25_SharesFrame ==
    [][/\ last'.op \in {"register_code", "link_code", "convert", "set_reward_percentage",
                        "on_idle"}
            => SharesUnchanged
       /\ last'.op = "process_trade_fee"
            => /\ totalShares' >= totalShares
               /\ \A a \in Accounts : /\ referrerShares'[a] >= referrerShares[a]
                                      /\ traderShares'[a] >= traderShares[a]
       /\ last'.op = "claim_rewards"
            => /\ totalShares' <= totalShares
               /\ \A a \in Accounts : /\ referrerShares'[a] <= referrerShares[a]
                                      /\ traderShares'[a] <= traderShares[a]
       /\ last'.op \in {"register_code", "link_code", "convert", "set_reward_percentage",
                        "on_idle", "process_trade_fee", "claim_rewards"}]_vars

\* a fee that credited shares to an account that held shares already
C25_Witness ==
    /\ last.op = "process_trade_fee"
    /\ last.res.ok
    /\ steps >= 2
    /\ traderShares[last.who] > 4
    /\ totalShares > traderShares[last.who]

\* a code with its letters in upper case
Upper(raw) ==
    [i \in 1..Len(raw) |-> IF raw[i] = "a" THEN "A" ELSE IF raw[i] = "b" THEN "B" ELSE raw[i]]

\* the code is registered already, whatever the case of its letters
Registered(raw) ==
    \E c \in DOMAIN referralCodes : referralCodes[c] # NoAccount /\ Upper(c) = Upper(raw)

RegisterTaken(who, raw) ==
    /\ last'.op = "register_code"
    /\ CodeRegisterCall(who, raw)

LinkTaken(who, raw) ==
    /\ last'.op = "link_code"
    /\ CodeLinkCall(who, raw)

\* C26 as stated: registering a code that is registered already (compared after
\* upper-casing) fails with AlreadyExists, whichever account tries, and leaves the
\* code-to-account map, the referrer records and all balances unchanged.
C26_SecondRegistrationAlreadyExists ==
    [][\A who \in Users, raw \in CodeSpecInputs :
        (RegisterTaken(who, raw) /\ Registered(raw))
        => /\ last'.res = Err("AlreadyExists")
           /\ referralCodes' = referralCodes
           /\ referrer' = referrer
           /\ balances' = balances]_vars

\* C26 as amended: registering a code that is registered already (compared after
\* upper-casing) fails and leaves the code-to-account map, the referrer records and all
\* balances unchanged; it fails with AlreadyExists when the account that tries has no
\* code of its own, and with AlreadyRegistered when it has one (the account that
\* registered the code included).
C26_SecondRegistrationFails ==
    [][\A who \in Users, raw \in CodeSpecInputs :
        (RegisterTaken(who, raw) /\ Registered(raw))
        => /\ last'.res = IF referralAccounts[who] # NoCode
                          THEN Err("AlreadyRegistered") ELSE Err("AlreadyExists")
           /\ referralCodes' = referralCodes
           /\ referralAccounts' = referralAccounts
           /\ referrer' = referrer
           /\ balances' = balances]_vars

\* an account without a code was refused a code that another account holds
C26_Witness ==
    /\ last.op = "register_code"
    /\ last.res = Err("AlreadyExists")
    /\ referralAccounts[last.who] = NoCode
    /\ \E a \in Users \ {last.who} : referralAccounts[a] # NoCode

\* C27: a link created by link_code is never overwritten or removed by a later
\* operation (a second link_code of the account with a registered code fails with
\* AlreadyLinked), no account is ever linked to itself, and link_code with an
\* unregistered code fails with InvalidCode and creates no link.
C27_LinkIsPermanent ==
    [][/\ \A a \in Accounts :
            /\ linkedAccounts[a] # NoAccount => linkedAccounts'[a] = linkedAccounts[a]
            /\ linkedAccounts'[a] # a
       /\ last'.op # "link_code" => linkedAccounts' = linkedAccounts
       /\ \A who \in Users, raw \in CodeSpecInputs :
            LinkTaken(who, raw)
            => /\ ~Registered(raw)
                    => (last'.res = Err("InvalidCode") /\ linkedAccounts' = linkedAccounts)
               /\ (Registered(raw) /\ linkedAccounts[who] # NoAccount)
                    => last'.res = Err("AlreadyLinked")
               /\ linkedAccounts[who] # NoAccount => ~last'.res.ok
               /\ last'.res.ok
                    => /\ linkedAccounts'[who] \in Users \ {who}
                       /\ Upper(referralAccounts[linkedAccounts'[who]]) = Upper(raw)
                       /\ \A a \in Accounts \ {who} : linkedAccounts'[a] = linkedAccounts[a]]_vars

\* a linked account was refused a second link, two codes being registered
C27_Witness ==
    /\ last.op = "link_code"
    /\ last.res = Err("AlreadyLinked")
    /\ linkedAccounts[last.who] # NoAccount
    /\ \A a \in Users : referralAccounts[a] # NoCode

\* C28: in fee intake and claim settlement, whenever a sum of rewards, a share amount
\* or an addition to referrer_shares, trader_shares or total_shares would pass the
\* Balance range, the operation fails with an overflow error and stores nothing: no
\* operation succeeds where an exact sum is out of the range, so that no clamped value
\* is stored or used.
C28_OverflowFails ==
    [][/\ \A amount \in FeeAmounts, price \in PricedInputs :
            PricedFeeTaken(amount, price)
            => LET trader == last'.who
                   d == ResolvedDistribution(trader, last'.transfers[1].asset)
                   ref == linkedAccounts[trader]
                   rs == IF ref # NoAccount THEN FloorShares(d.referrer, amount, price) ELSE 0
                   ts == FloorShares(d.trader, amount, price)
                   es == IF externalAccount # NoAccount
                         THEN FloorShares(d.external, amount, price) ELSE 0
               IN  /\ totalShares + rs + ts + es <= MaxBalance
                   /\ traderShares[trader] + ts <= MaxBalance
                   /\ ref # NoAccount => referrerShares[ref] + rs <= MaxBalance
                   /\ externalAccount # NoAccount
                        => traderShares[externalAccount] + es <= MaxBalance
       /\ (ClaimTaken /\ last'.res.ok)
            => referrerShares[last'.who] + traderShares[last'.who] <= MaxBalance]_vars

\* C29: if the pot's reward balance is at least the seed before a claim, it is at least
\* the seed after it: no claim pays out a part of the reserved floor.
C29_ClaimKeepsSeed ==
    [][(ClaimTaken /\ balances[RewardAsset][Pot] >= SeedNativeAmount)
        => balances'[RewardAsset][Pot] >= SeedNativeAmount]_vars

\* the holder of every share was paid without the pot being kept alive, and the pot
\* is left with the seed
C29_Witness ==
    /\ last.op = "claim_rewards"
    /\ last.res.ok
    /\ Len(last.transfers) = 1
    /\ last.transfers[1].amount > 0
    /\ ~last.transfers[1].keep_alive
    /\ balances[RewardAsset][Pot] = SeedNativeAmount

\* C30: the payout transfer of a claim requires the pot to stay alive exactly when
\* shares remain outstanding after the claim (the claimant's shares differ from
\* total_shares before the claim) and does not exactly when the claimant holds all of
\* total_shares; only then may the transfer take the pot below the reserved floor.
C30_KeepAliveWhileSharesRemain ==
    [][(ClaimTaken /\ last'.res.ok /\ Len(last'.transfers) = 1)
        => LET who == last'.who
               held == referrerShares[who] + traderShares[who]
           IN  /\ last'.transfers[1].keep_alive = (held # totalShares)
               /\ balances'[RewardAsset][Pot] < SeedNativeAmount => held = totalShares]_vars

\* C31: level progression returns for every starting level and every cumulative total,
\* after at most four advancements; started from None it returns None, whatever the
\* total and whatever the required volume configured for None, 0 included.
C31_IncreaseTerminates ==
    [][last'.op = "increase"
        => LET l == referrer["alice"].level
               l2 == referrer'["alice"].level
           IN  /\ last'.res.ok
               /\ last'.events[1].to # "Diverges"
               /\ LevelRank(l2) - LevelRank(l) <= 4
               /\ l = "None" => l2 = "None"]_vars

\* C32: in every reachable state every account that a link points to has a referrer
\* record and the level of that record is not None; so process_trade_fee finds the
\* record of every linked trader's referrer and never takes its defensive branch.
C32_LinkedReferrerHasRecord ==
    \A a \in Accounts :
        linkedAccounts[a] # NoAccount
            => /\ referrer[linkedAccounts[a]] # NoReferrer
               /\ referrer[linkedAccounts[a]].level \in Tiers
               /\ TraderLevel(Storage, a).found
               /\ TraderLevel(Storage, a).ref_account = linkedAccounts[a]

\* a fee of a linked trader was processed and rewarded under the level of the
\* referrer's record
C32_Witness ==
    /\ last.op = "process_trade_fee"
    /\ linkedAccounts[last.who] # NoAccount
    /\ referrer[linkedAccounts[last.who]] # NoReferrer
    /\ referrerShares[linkedAccounts[last.who]] > 0
    /\ last.res.ok
    /\ last.res.val > 0

\* the conversion on_idle would make of the asset, were the asset attempted now
WouldConvert(asset_id) ==
    Convert(balances, asset_id, balances[asset_id][Pot], CycleOutcome(asset_id)).ok

\* C33: with on_idle run again and again, each time with a budget for at least one
\* conversion, every pending asset whose conversion would succeed is eventually
\* converted and removed from the pending conversions, also while other pending
\* assets fail to convert in every cycle.
C33_ConvertibleEventuallyConverted ==
    \A a \in Assets :
        (a \in pendingConversions /\ WouldConvert(a)) ~> (a \notin pendingConversions)

\* the signed amount of an update
Signed(u) == IF u.kind = "Decrease" THEN 0 - u.value ELSE u.value

\* the sum of the two updates does not overflow
SumInRange(u, v) ==
    /\ Signed(u) + Signed(v) <= MaxBalance
    /\ Signed(u) + Signed(v) >= 0 - MaxBalance

\* C34: for every pair of updates whose sum does not overflow, checked_add, and diff
\* which delegates to it, return the signed sum: Increase(a) with Decrease(b) gives
\* Increase(a - b) when a >= b and Decrease(b - a) when a < b, and symmetrically; the
\* result is the one of Add on the same updates.
C34_CheckedAddIsSignedSum ==
    (last.op \in {"checked_add", "diff"} /\ SumInRange(last.events[1].lhs, last.events[1].rhs))
        => LET u == last.events[1].lhs
               v == last.events[1].rhs
               r == last.events[1].result
           IN  /\ r.kind \in {"Increase", "Decrease"}
               /\ Signed(r) = Signed(u) + Signed(v)
               /\ (u.kind = "Increase" /\ v.kind = "Decrease")
                    => r = (IF u.value >= v.value THEN Increase(u.value - v.value)
                            ELSE Decrease(v.value - u.value))
               /\ (u.kind = "Decrease" /\ v.kind = "Increase")
                    => r = (IF u.value >= v.value THEN Decrease(u.value - v.value)
                            ELSE Increase(v.value - u.value))
               /\ BalanceUpdateAdd(u, v) = {r}

====
